---- MODULE Spec2Model ----
(***************************************************************************)
(* Model of the capital-gains calculator of the retire repository:         *)
(*   src/tax/capital_gain_tax.py  FIFO lot matching and tax_due             *)
(*   src/tax/income_tax.py        filing statuses, ordinary-income brackets *)
(*                                                                         *)
(* Units.  Prices and gains are whole dollars.  A rate is held in units of *)
(* 1/10000 (0.15 is 1500, 0.0038 is 38), so a product gain * rate is in    *)
(* 1/10000 dollar; round(x, 2) takes such a product to whole cents.  Dates *)
(* are proleptic Gregorian ordinals (datetime.toordinal), so the .days of  *)
(* a difference of two midnight datetimes is the difference of ordinals.   *)
(***************************************************************************)
EXTENDS Integers, Sequences, FiniteSets, TLC

VARIABLES
    heap,      \* object store: heap[r] is the transaction object with reference r
    tr_list,   \* CapitalGainTax._transactions: the caller's list, as references
    input0,    \* the transactions as they were when the object was constructed
    results,   \* what the direct calls of calculate_fifo_capital_gains returned
    itx,       \* the IncomeTax object: income and filing status
    tax,       \* how the call of tax_due ended
    rate_long, \* how a call of get_long_term_rate(itx.income, itx.filing_status) ended
    rate_short \* how a call of get_short_term_rate(itx.income, itx.filing_status) ended

vars == <<heap, tr_list, input0, results, itx, tax, rate_long, rate_short>>

----------------------------------------------------------------------------
(* Bounds and sample sets of the model *)

MaxTx == 4      \* longest transaction list of Spec
MaxCalls == 2   \* direct calls of calculate_fifo_capital_gains on one object
MaxTaxTx == 3   \* longest transaction list of SpecTax and SpecUnvalidated

Min(a, b) == IF a <= b THEN a ELSE b
Max(a, b) == IF a >= b THEN a ELSE b

RECURSIVE SumSeq(_)
SumSeq(s) == IF s = <<>> THEN 0 ELSE Head(s) + SumSeq(Tail(s))

----------------------------------------------------------------------------
(* income_tax.py *)

SINGLE == "single"
MARRIED_JOINTLY == "married_jointly"
MARRIED_SEPARATELY == "married_separately"
HEAD_OF_HOUSEHOLD == "head_of_household"
FilingStatus == {SINGLE, MARRIED_JOINTLY, MARRIED_SEPARATELY, HEAD_OF_HOUSEHOLD}

\* float('inf') as an upper bound
Inf == -1

income_tax_brackets ==
    [s \in FilingStatus |->
        CASE s = SINGLE ->
               << <<0, 11160, 1000>>, <<11161, 47150, 1200>>, <<47151, 100525, 2200>>,
                  <<100526, 191950, 2400>>, <<191951, 243725, 3200>>,
                  <<243726, 609350, 3500>>, <<609351, Inf, 3700>> >>
          [] s = MARRIED_JOINTLY ->
               << <<0, 23200, 1000>>, <<23201, 94300, 1200>>, <<94301, 201050, 2200>>,
                  <<201051, 383900, 2400>>, <<383901, 487450, 3200>>,
                  <<487451, 731200, 3500>>, <<731201, Inf, 3700>> >>
          [] s = MARRIED_SEPARATELY ->
               << <<0, 11160, 1000>>, <<11161, 47150, 1200>>, <<47151, 100525, 2200>>,
                  <<100526, 191950, 2400>>, <<191951, 243725, 3200>>,
                  <<243726, 365600, 3500>>, <<365601, Inf, 3700>> >>
          [] s = HEAD_OF_HOUSEHOLD ->
               << <<0, 16550, 1000>>, <<16551, 63100, 1200>>, <<63101, 100500, 2200>>,
                  <<100501, 191950, 2400>>, <<191951, 243700, 3200>>,
                  <<243701, 609350, 3500>>, <<609351, Inf, 3700>> >>]

IncomeTax(income, filing_status) == [income |-> income, filing_status |-> filing_status]

----------------------------------------------------------------------------
(* capital_gain_tax.py: tables and rate lookups *)

BUY == "buy"
SELL == "sell"

Transaction(date, operation, quantity, price) ==
    [date |-> date, operation |-> operation, quantity |-> quantity, price |-> price]

UpdatableTransaction(t) ==
    [date |-> t.date, operation |-> t.operation, quantity |-> t.quantity, price |-> t.price]

long_term_tax_brackets ==
    [s \in FilingStatus |->
        CASE s = SINGLE ->
               << <<0, 48350, 0>>, <<48351, 533400, 1500>>, <<533401, Inf, 2000>> >>
          [] s = MARRIED_JOINTLY ->
               << <<0, 97600, 0>>, <<96701, 600500, 1500>>, <<600501, Inf, 2000>> >>
          [] s = MARRIED_SEPARATELY ->
               << <<0, 48350, 0>>, <<48351, 300000, 1500>>, <<300001, Inf, 2000>> >>
          [] s = HEAD_OF_HOUSEHOLD ->
               << <<0, 63000, 0>>, <<63001, 535130, 1500>>, <<535351, Inf, 2000>> >>]

niit_rate(income, filing_status) ==
    IF \/ (filing_status = SINGLE /\ income > 200000)
       \/ (filing_status = MARRIED_JOINTLY /\ income > 250000)
       \/ (filing_status = MARRIED_SEPARATELY /\ income > 125000)
       \/ (filing_status = HEAD_OF_HOUSEHOLD /\ income > 200000)
    THEN 38
    ELSE 0

\* upper_bound >= income >= lower_bound
InBracket(b, income) == (b[2] = Inf \/ b[2] >= income) /\ income >= b[1]

\* The for loop of both lookups: the first bracket holding the income gives the
\* rate; running off the end of the table raises RuntimeError.
RECURSIVE ScanBrackets(_, _)
ScanBrackets(table, income) ==
    IF table = <<>> THEN [raised |-> TRUE, rate |-> 0]
    ELSE IF InBracket(Head(table), income) THEN [raised |-> FALSE, rate |-> Head(table)[3]]
    ELSE ScanBrackets(Tail(table), income)

get_long_term_rate(income, filing_status) ==
    ScanBrackets(long_term_tax_brackets[filing_status], income)

get_short_term_rate(income, filing_status) ==
    ScanBrackets(income_tax_brackets[filing_status], income)

----------------------------------------------------------------------------
(* capital_gain_tax.py: CapitalGainTax *)

\* The transactions property, run against the object store h for the list l of
\* references: one fresh UpdatableTransaction per transaction; refs[i] is the
\* copy of l[i].
\* (Variant that hands out the caller's own objects instead of copies.)
transactionsAliased(h, l) == [heap |-> h, refs |-> l]

transactions(h, l) ==
    [heap |-> h \o [i \in 1..Len(l) |-> UpdatableTransaction(h[l[i]])],
     refs |-> [i \in 1..Len(l) |-> Len(h) + i]]

\* Position in the input list of the transaction that reference r stands for
\* (not in the code: it names the lot and the sale of a match record below).
IxOf(refs, r) == CHOOSE i \in 1..Len(refs) : refs[i] = r

\* sorted(s, key=lambda x: x.date): stable, so an element goes behind the
\* elements of equal date that came before it.
RECURSIVE InsertByDate(_, _, _)
InsertByDate(h, x, s) ==
    IF s = <<>> THEN <<x>>
    ELSE IF h[x].date < h[Head(s)].date THEN <<x>> \o s
    ELSE <<Head(s)>> \o InsertByDate(h, x, Tail(s))

RECURSIVE sorted(_, _)
sorted(h, s) ==
    IF s = <<>> THEN <<>>
    ELSE InsertByDate(h, s[Len(s)], sorted(h, SubSeq(s, 1, Len(s) - 1)))

\* min(remaining_sale_quantity, oldest_purchase.quantity)
\* (Variant that takes the whole remaining sale quantity from the lot.)
matched_quantity_all(remaining_sale_quantity, quantity) == remaining_sale_quantity

matched_quantity(remaining_sale_quantity, quantity) ==
    Min(remaining_sale_quantity, quantity)

\* (sale.date - oldest_purchase.date).days
\* (Variant with the operands exchanged.)
holding_period_reversed(sale_date, purchase_date) == purchase_date - sale_date

holding_period(sale_date, purchase_date) == sale_date - purchase_date

\* if holding_period > 365: "long-term" else "short-term"
\* (Variant that counts exactly 365 days as long-term.)
gain_type_from_365(period) == IF period >= 365 THEN "long-term" ELSE "short-term"

gain_type(period) == IF period > 365 THEN "long-term" ELSE "short-term"

\* purchase_queue.appendleft(oldest_purchase)
\* (Variant that puts the lot at the back of the queue.)
append(purchase_queue, x) == Append(purchase_queue, x)

appendleft(purchase_queue, x) == <<x>> \o purchase_queue

\* One pass of the body of the while loop for the sale object with reference
\* sale.  st holds the locals that live across passes and the object store.
WhileBody(st, sale, sale_ix, buy_refs) ==
    LET oldest_purchase == Head(st.purchase_queue)
        popped == Tail(st.purchase_queue)
        s == st.heap[sale]
        p == st.heap[oldest_purchase]
        matched == matched_quantity(st.remaining_sale_quantity, p.quantity)
        cost_basis == matched * p.price
        sale_proceeds == matched * s.price
        gl == [sale_date |-> s.date, purchase_date |-> p.date, quantity |-> matched,
               cost_basis |-> cost_basis, sale_proceeds |-> sale_proceeds,
               gain_loss |-> sale_proceeds - cost_basis,
               tax_type |-> gain_type(holding_period(s.date, p.date)),
               sale_ix |-> sale_ix, purchase_ix |-> IxOf(buy_refs, oldest_purchase)]
    IN  [heap |-> IF p.quantity > matched
                  THEN [st.heap EXCEPT ![oldest_purchase].quantity = @ - matched]
                  ELSE st.heap,
         purchase_queue |-> IF p.quantity > matched
                            THEN appendleft(popped, oldest_purchase)
                            ELSE popped,
         remaining_sale_quantity |-> st.remaining_sale_quantity - matched,
         gains_and_losses |-> Append(st.gains_and_losses, gl)]

RECURSIVE WhileLoop(_, _, _, _)
WhileLoop(st, sale, sale_ix, buy_refs) ==
    IF st.remaining_sale_quantity > 0 /\ st.purchase_queue # <<>>
    THEN WhileLoop(WhileBody(st, sale, sale_ix, buy_refs), sale, sale_ix, buy_refs)
    ELSE st

\* for sale in sorted(_sales, ...)
RECURSIVE ForLoop(_, _, _, _)
ForLoop(st, sales, sale_refs, buy_refs) ==
    IF sales = <<>> THEN st
    ELSE ForLoop(WhileLoop([st EXCEPT !.remaining_sale_quantity = st.heap[Head(sales)].quantity],
                           Head(sales), IxOf(sale_refs, Head(sales)), buy_refs),
                 Tail(sales), sale_refs, buy_refs)

\* calculate_fifo_capital_gains on an object whose _transactions is l, in the
\* object store h: the list it returns, and the store it leaves (the working
\* copies are garbage once it has returned and are dropped).
calculate_fifo_capital_gains(h, l) ==
    LET t1 == transactions(h, l)
        t2 == transactions(t1.heap, l)
        buys == SelectSeq(t1.refs, LAMBDA r : t2.heap[r].operation = BUY)
        sales == SelectSeq(t2.refs, LAMBDA r : t2.heap[r].operation = SELL)
        st0 == [heap |-> t2.heap,
                purchase_queue |-> sorted(t2.heap, buys),
                remaining_sale_quantity |-> 0,
                gains_and_losses |-> <<>>]
        end == ForLoop(st0, sorted(t2.heap, sales), t2.refs, t1.refs)
    IN  [heap |-> SubSeq(end.heap, 1, Len(h)), gains_and_losses |-> end.gains_and_losses]

\* round(x, 2) of an amount x held in 1/10000 dollar, as whole cents; a tie
\* goes to the even cent.
Round2(x) ==
    LET q == x \div 100
        r == x % 100
    IN  IF r < 50 THEN q
        ELSE IF r > 50 THEN q + 1
        ELSE IF q % 2 = 0 THEN q ELSE q + 1

NoTax == [outcome |-> "none", value |-> 0, long_term |-> 0, short_term |-> 0,
          net_short_term |-> 0, carry_over_reported |-> FALSE, carry_over |-> 0,
          gains_and_losses |-> <<>>]

\* tax_due(itx): the store it leaves and how it ends.  outcome is "return"
\* with the value returned (in cents), or the exception that ended it:
\* RuntimeError out of a rate lookup, NameError at the use of sys, a name the
\* module never imports, in the carry-over report; so no carry-over is ever
\* reported (the print at that line is the only place that would).
tax_due(h, l, x) ==
    LET my_niit_rate == niit_rate(x.income, x.filing_status)
        run == calculate_fifo_capital_gains(h, l)
        gls == run.gains_and_losses
        long_term_gain_loss ==
            SumSeq([k \in 1..Len(gls) |->
                      IF gls[k].tax_type = "long-term" THEN gls[k].gain_loss ELSE 0])
        short_term_gain_loss ==
            SumSeq([k \in 1..Len(gls) |->
                      IF gls[k].tax_type = "long-term" THEN 0 ELSE gls[k].gain_loss])
        long_term_rate == get_long_term_rate(x.income, x.filing_status)
        short_term_rate == get_short_term_rate(x.income, x.filing_status)
        tax_owed_long == IF long_term_gain_loss > 0
                         THEN long_term_gain_loss * (long_term_rate.rate + my_niit_rate)
                         ELSE 0
        net_short == IF long_term_gain_loss > 0
                     THEN short_term_gain_loss
                     ELSE short_term_gain_loss + long_term_gain_loss
        tax_owed == IF net_short > 0 THEN tax_owed_long + net_short * short_term_rate.rate
                    ELSE IF net_short < 0 THEN Max(-3000, net_short) * 10000
                    ELSE tax_owed_long
        outcome == IF long_term_rate.raised \/ short_term_rate.raised THEN "RuntimeError"
                   ELSE IF net_short < -3000 THEN "NameError"
                   ELSE "return"
    IN  [heap |-> run.heap,
         tax |-> [outcome |-> outcome,
                  value |-> IF outcome = "return" THEN Round2(tax_owed) ELSE 0,
                  long_term |-> long_term_gain_loss,
                  short_term |-> short_term_gain_loss,
                  net_short_term |-> net_short,
                  carry_over_reported |-> FALSE,
                  carry_over |-> 0,
                  gains_and_losses |-> gls]]

----------------------------------------------------------------------------
(* Dates of the unit test *)

IsLeap(y) == y % 4 = 0 /\ (y % 100 # 0 \/ y % 400 = 0)

DaysInMonth(y, m) ==
    IF m = 2 THEN (IF IsLeap(y) THEN 29 ELSE 28)
    ELSE IF m \in {4, 6, 9, 11} THEN 30 ELSE 31

RECURSIVE DaysBeforeMonth(_, _)
DaysBeforeMonth(y, m) == IF m = 1 THEN 0 ELSE DaysBeforeMonth(y, m - 1) + DaysInMonth(y, m - 1)

DaysBeforeYear(y) ==
    LET z == y - 1 IN z * 365 + z \div 4 - z \div 100 + z \div 400

\* datetime(y, m, d).toordinal()
datetime(y, m, d) == DaysBeforeYear(y) + DaysBeforeMonth(y, m) + d

\* the transactions list of unit_test
unit_test_transactions ==
    << Transaction(datetime(2023, 1, 15), BUY, 100, 20),
       Transaction(datetime(2023, 3, 10), BUY, 50, 22),
       Transaction(datetime(2024, 2, 5), BUY, 75, 25),
       Transaction(datetime(2024, 1, 20), SELL, 80, 28),
       Transaction(datetime(2024, 7, 1), SELL, 50, 30) >>

unit_test_itx == IncomeTax(100000, MARRIED_JOINTLY)

----------------------------------------------------------------------------
(* Inputs *)

Lists(domain, n) == UNION {[1..k -> domain] : k \in 0..n}

\* Well-formed transactions (positive quantity, non-negative price).  The
\* dates put -1, 0, 365 and 366 days between a purchase and a sale, and let
\* two purchases, or two sales, fall on one day.
Quantities == {1, 2}
TxEngine == {Transaction(d, BUY, q, 20) : d \in {1, 2}, q \in Quantities}
            \cup {Transaction(d, SELL, q, 28) : d \in {1, 367}, q \in Quantities}

\* Well-formed transactions whose prices put a loss on either side of 3000
TxTax == {Transaction(d, o, 1, p) : d \in {1, 2, 367}, o \in {BUY, SELL}, p \in {1000, 3000, 5000}}
ItxTax == {IncomeTax(i, s) : i \in {100000, 300000}, s \in {SINGLE, MARRIED_JOINTLY}}

\* Transactions as a caller can build them: any quantity, price and tag
TxAny == {Transaction(d, o, q, p) : d \in {1, 2}, o \in {BUY, SELL, "hold"},
                                    q \in {-1, 0, 1}, p \in {-5, 20}}

Valid(t) == t.quantity > 0 /\ t.price >= 0 /\ t.operation \in {BUY, SELL}

\* Every bound of both tables with its two neighbours, and a very large income
BracketBounds ==
    UNION {{b[1], b[2]} : b \in UNION {{long_term_tax_brackets[s][k] : k \in 1..3}
                                       \cup {income_tax_brackets[s][k] : k \in 1..7}
                                       : s \in FilingStatus}}
Incomes ==
    {i \in UNION {{b - 1, b, b + 1} : b \in BracketBounds \ {Inf}} : i >= 0} \cup {2000000000}

NotCalled == [called |-> FALSE, raised |-> FALSE, rate |-> 0]

\* CapitalGainTax(tr_list) on a fresh list, and the IncomeTax object x
Construct(l, x) ==
    /\ heap = l
    /\ tr_list = [i \in 1..Len(l) |-> i]
    /\ input0 = l
    /\ results = <<>>
    /\ itx = x
    /\ tax = NoTax
    /\ rate_long = NotCalled
    /\ rate_short = NotCalled

Init ==
    \E l \in Lists(TxEngine, MaxTx) \cup {unit_test_transactions} : Construct(l, unit_test_itx)

InitTax ==
    \E l \in Lists(TxTax, MaxTaxTx), x \in ItxTax : Construct(l, x)

InitUnvalidated ==
    \E l \in Lists(TxAny, MaxTaxTx) : Construct(l, unit_test_itx)

InitBrackets ==
    \E i \in Incomes, s \in FilingStatus : Construct(<<>>, IncomeTax(i, s))

----------------------------------------------------------------------------
(* Operations *)

CalculateFifoCapitalGains ==
    /\ Len(results) < MaxCalls
    /\ LET run == calculate_fifo_capital_gains(heap, tr_list)
       IN  /\ heap' = run.heap
           /\ results' = Append(results, run.gains_and_losses)
    /\ UNCHANGED <<tr_list, input0, itx, tax, rate_long, rate_short>>

TaxDue ==
    /\ tax.outcome = "none"
    /\ LET run == tax_due(heap, tr_list, itx)
       IN  /\ heap' = run.heap
           /\ tax' = run.tax
    /\ UNCHANGED <<tr_list, input0, results, itx, rate_long, rate_short>>

GetLongTermRate ==
    /\ ~rate_long.called
    /\ LET r == get_long_term_rate(itx.income, itx.filing_status)
       IN  rate_long' = [called |-> TRUE, raised |-> r.raised, rate |-> r.rate]
    /\ UNCHANGED <<heap, tr_list, input0, results, itx, tax, rate_short>>

GetShortTermRate ==
    /\ ~rate_short.called
    /\ LET r == get_short_term_rate(itx.income, itx.filing_status)
       IN  rate_short' = [called |-> TRUE, raised |-> r.raised, rate |-> r.rate]
    /\ UNCHANGED <<heap, tr_list, input0, results, itx, tax, rate_long>>

Next == CalculateFifoCapitalGains \/ TaxDue

NextBrackets == GetLongTermRate \/ GetShortTermRate

Spec == Init /\ [][Next]_vars
SpecTax == InitTax /\ [][Next]_vars
SpecUnvalidated == InitUnvalidated /\ [][Next]_vars
SpecBrackets == InitBrackets /\ [][NextBrackets]_vars

----------------------------------------------------------------------------
(* Vocabulary of the properties *)

\* Every list of match records produced so far: by a direct call, or inside tax_due
Returned ==
    {results[i] : i \in 1..Len(results)}
    \cup (IF tax.outcome # "none" THEN {tax.gains_and_losses} ELSE {})

Buys == {i \in 1..Len(input0) : input0[i].operation = BUY}
Sales == {i \in 1..Len(input0) : input0[i].operation = SELL}

\* Transaction a comes before transaction b by date, input position breaking ties
Before(a, b) ==
    \/ input0[a].date < input0[b].date
    \/ (input0[a].date = input0[b].date /\ a < b)

\* Quantity matched to sale s in the list r
MatchedForSale(r, s) ==
    SumSeq([k \in 1..Len(r) |-> IF r[k].sale_ix = s THEN r[k].quantity ELSE 0])

\* Quantity matched to the sales that come before sale s
MatchedBeforeSale(r, s) ==
    SumSeq([k \in 1..Len(r) |-> IF Before(r[k].sale_ix, s) THEN r[k].quantity ELSE 0])

\* Quantity that the first n records of r take from lot b
TakenFromLot(r, b, n) ==
    SumSeq([k \in 1..n |-> IF r[k].purchase_ix = b THEN r[k].quantity ELSE 0])

TotalBought == SumSeq([i \in 1..Len(input0) |-> IF i \in Buys THEN input0[i].quantity ELSE 0])

\* Quantity in the purchase queue when sale s starts being processed
AvailableAt(r, s) == TotalBought - MatchedBeforeSale(r, s)

\* Quantity left in lot b just before record k of r is emitted
LeftInLot(r, b, k) == input0[b].quantity - TakenFromLot(r, b, k - 1)

Gap(gl) == gl.sale_date - gl.purchase_date

----------------------------------------------------------------------------
(* Properties *)

\* C1: the quantities of the match records of one sale add up to at most the
\* sale's quantity and at most what the purchase queue held when that sale
\* started; no lot gives more than its original quantity.
NoOverMatching ==
    \A r \in Returned :
        /\ \A s \in Sales :
              /\ MatchedForSale(r, s) <= input0[s].quantity
              /\ MatchedForSale(r, s) <= AvailableAt(r, s)
        /\ \A b \in Buys : TakenFromLot(r, b, Len(r)) <= input0[b].quantity

\* A sale that asked for more than the queue held and got exactly what was there
NoOverMatchingWitness ==
    \E r \in Returned : \E s \in Sales :
        /\ MatchedForSale(r, s) > 0
        /\ MatchedForSale(r, s) = AvailableAt(r, s)
        /\ MatchedForSale(r, s) < input0[s].quantity

\* C2: records come in ascending order of sale date, and every record takes
\* from the purchase that is earliest (by date, then input position) among the
\* purchases with quantity left, a partly consumed lot included.
FifoOrder ==
    \A r \in Returned : \A k \in 1..Len(r) :
        /\ r[k].purchase_ix \in Buys
        /\ r[k].sale_ix \in Sales
        /\ LeftInLot(r, r[k].purchase_ix, k) > 0
        /\ \A b \in Buys : LeftInLot(r, b, k) > 0 => ~Before(b, r[k].purchase_ix)
        /\ k > 1 => input0[r[k - 1].sale_ix].date <= input0[r[k].sale_ix].date

\* Two sales given latest first; the earlier one leaves a lot partly consumed
\* and the later one finishes that lot while a later-dated lot is waiting.
FifoOrderWitness ==
    \E r \in Returned : \E k \in 1..Len(r) - 1 :
        /\ r[k].purchase_ix = r[k + 1].purchase_ix
        /\ r[k].sale_ix > r[k + 1].sale_ix
        /\ input0[r[k].sale_ix].date < input0[r[k + 1].sale_ix].date
        /\ \E b \in Buys : /\ input0[b].date > input0[r[k].purchase_ix].date
                           /\ LeftInLot(r, b, k + 1) > 0

\* C5: every call returns the same records, and the caller's transactions
\* stay as they were given.
Idempotent ==
    /\ [i \in 1..Len(tr_list) |-> heap[tr_list[i]]] = input0
    /\ \A r1, r2 \in Returned : r1 = r2

\* Two direct calls and tax_due, on an input where a lot is partly consumed
IdempotentWitness ==
    /\ Len(results) = 2
    /\ tax.outcome # "none"
    /\ \E k \in 1..Len(results[2]) :
          results[2][k].quantity < input0[results[2][k].purchase_ix].quantity

\* C8: a record is long-term exactly when its sale is more than 365 days
\* after its purchase.
HoldingPeriodBoundary ==
    \A r \in Returned : \A k \in 1..Len(r) :
        /\ r[k].sale_date = input0[r[k].sale_ix].date
        /\ r[k].purchase_date = input0[r[k].purchase_ix].date
        /\ r[k].tax_type \in {"long-term", "short-term"}
        /\ r[k].tax_type = "long-term" <=> Gap(r[k]) > 365

\* One sale matched at 365 days (short-term) and at 366 days (long-term)
HoldingPeriodBoundaryWitness ==
    \E r \in Returned : \E j, k \in 1..Len(r) :
        /\ Gap(r[j]) = 365 /\ r[j].tax_type = "short-term"
        /\ Gap(r[k]) = 366 /\ r[k].tax_type = "long-term"

\* The records of the unit-test scenario, the holding period of the second one given as d
ScenarioRecords(r, d) ==
    /\ Len(r) = 3
    /\ r[1].quantity = 80 /\ r[1].purchase_ix = 1 /\ r[1].sale_ix = 4
    /\ Gap(r[1]) = 370 /\ r[1].tax_type = "long-term" /\ r[1].gain_loss = 640
    /\ r[2].quantity = 20 /\ r[2].purchase_ix = 1 /\ r[2].sale_ix = 5
    /\ Gap(r[2]) = d /\ r[2].tax_type = "long-term"
    /\ r[3].quantity = 30 /\ r[3].purchase_ix = 2 /\ r[3].sale_ix = 5
    /\ Gap(r[3]) = 479 /\ r[3].tax_type = "long-term"

\* tax_due of the scenario: 1080 of long-term gain at 15%, nothing else
ScenarioTax ==
    tax.outcome # "none" =>
        /\ tax.outcome = "return"
        /\ tax.long_term = 1080
        /\ tax.short_term = 0
        /\ tax.value = 16200

\* C9 as stated: the second record has a holding period of 473 days
ScenarioAsStated ==
    input0 = unit_test_transactions =>
        /\ \A r \in Returned : ScenarioRecords(r, 473)
        /\ ScenarioTax

\* C9, amended: the second record has a holding period of 533 days
ScenarioAmended ==
    input0 = unit_test_transactions =>
        /\ \A r \in Returned : ScenarioRecords(r, 533)
        /\ ScenarioTax

\* The scenario after a direct call and tax_due
ScenarioWitness ==
    /\ input0 = unit_test_transactions
    /\ itx = unit_test_itx
    /\ Len(results) >= 1
    /\ tax.outcome = "return"

\* C10: no record pairs a sale with a purchase made after it
PurchaseBeforeSale ==
    \A r \in Returned : \A k \in 1..Len(r) :
        r[k].purchase_date <= r[k].sale_date /\ Gap(r[k]) >= 0

\* C3: a net short-term result below -3000 makes tax_due return -3000 and
\* report result + 3000 as the carry-over.
LossCap ==
    (tax.outcome # "none" /\ tax.net_short_term < -3000) =>
        /\ tax.outcome = "return"
        /\ tax.value = -300000
        /\ tax.carry_over_reported
        /\ tax.carry_over = tax.net_short_term + 3000

\* C7: a negative net short-term result makes tax_due return
\* max(-3000, result), whatever the long-term total is.
LossOverwrite ==
    (tax.outcome # "none" /\ tax.net_short_term < 0) =>
        /\ tax.outcome = "return"
        /\ tax.value = Max(-3000, tax.net_short_term) * 100

\* C4: neither rate lookup raises, for any filing status and income
BracketCoverage == ~rate_long.raised /\ ~rate_short.raised

\* C6: a list with an invalid transaction gives no match records and no tax
\* figure, and no record ever has a quantity of zero or less.
InvalidRejected ==
    /\ (\E i \in 1..Len(input0) : ~Valid(input0[i])) =>
          (results = <<>> /\ tax.outcome \notin {"return"})
    /\ \A r \in Returned : \A k \in 1..Len(r) : r[k].quantity > 0

====
